---------------------------- MODULE Spec2Model ----------------------------
(***************************************************************************)
(* Model of gmb_scraper.py: the listing parser (parse_gmb_listing), the    *)
(* progress store (load_completed_keywords / save_completed_keyword), the  *)
(* CAPTCHA wait loop (handle_captcha) and the main execution block (the    *)
(* keyword loop, pagination, export, crash handling and browser teardown). *)
(*                                                                         *)
(* Texts are sequences of one-character strings, so that strip, split,     *)
(* join, lower-casing and the regular expressions of the parser are        *)
(* computed and not assumed.  An optional value (Python's None or a value) *)
(* is a sequence of length 0 or 1.                                         *)
(***************************************************************************)
EXTENDS Integers, Sequences, FiniteSets, TLC

(***************************************************************************)
(* Text primitives (Python str methods and the re module).                 *)
(***************************************************************************)
MidDot == "·"

None == <<>>
Some(v) == <<v>>

SetMin(S) == CHOOSE x \in S : \A y \in S : x <= y
SetMax(S) == CHOOSE x \in S : \A y \in S : y <= x

SpaceChars == {" ", "\t", "\n"}
IsSpace(c) == c \in SpaceChars

Digits == <<"0", "1", "2", "3", "4", "5", "6", "7", "8", "9">>
DigitChars == {Digits[d] : d \in 1..10}
IsDigit(c) == c \in DigitChars
DigitVal(c) == (CHOOSE d \in 1..10 : Digits[d] = c) - 1

UpperCase ==
    <<"A", "B", "C", "D", "E", "F", "G", "H", "I", "J", "K", "L", "M",
      "N", "O", "P", "Q", "R", "S", "T", "U", "V", "W", "X", "Y", "Z">>
LowerCase ==
    <<"a", "b", "c", "d", "e", "f", "g", "h", "i", "j", "k", "l", "m",
      "n", "o", "p", "q", "r", "s", "t", "u", "v", "w", "x", "y", "z">>
LowerChar(c) ==
    IF \E k \in 1..26 : UpperCase[k] = c
    THEN LowerCase[CHOOSE k \in 1..26 : UpperCase[k] = c]
    ELSE c
\* str.lower()
Lower(s) == [k \in 1..Len(s) |-> LowerChar(s[k])]

\* str.strip(): leading and trailing whitespace removed
Strip(s) ==
    LET keep == {k \in 1..Len(s) : ~IsSpace(s[k])}
    IN  IF keep = {} THEN <<>> ELSE SubSeq(s, SetMin(keep), SetMax(keep))

\* re.sub(r'\s+', '', s): every whitespace character removed
RemoveSpaces(s) == SelectSeq(s, LAMBDA c : ~IsSpace(c))

\* str.replace(',', '')
RemoveCommas(s) == SelectSeq(s, LAMBDA c : c # ",")

\* str.split(sep) for a one-character separator
Split(s, sep) ==
    LET at == {k \in 1..Len(s) : s[k] = sep}
        n == Cardinality(at)
        \* position of the j-th separator
        pos(j) == CHOOSE p \in at : Cardinality({q \in at : q < p}) = j - 1
        first(j) == IF j = 1 THEN 1 ELSE pos(j - 1) + 1
        final(j) == IF j = n + 1 THEN Len(s) ELSE pos(j) - 1
    IN  [j \in 1..(n + 1) |-> SubSeq(s, first(j), final(j))]

\* " ".join(parts)
JoinSpace(parts) ==
    LET joined[k \in 0..Len(parts)] ==
            IF k = 0 THEN <<>>
            ELSE IF k = 1 THEN parts[1]
            ELSE joined[k - 1] \o <<" ">> \o parts[k]
    IN  joined[Len(parts)]

\* the literal lit occurs in s starting at position b
MatchAt(s, b, lit) ==
    /\ b >= 1
    /\ b + Len(lit) - 1 <= Len(s)
    /\ \A k \in 1..Len(lit) : s[b + k - 1] = lit[k]

\* lit in s
Contains(s, lit) == \E b \in 1..(Len(s) + 1) : MatchAt(s, b, lit)

AllDigits(s) == \A k \in 1..Len(s) : IsDigit(s[k])

\* int(digits)
ParseInt(ds) ==
    LET value[k \in 0..Len(ds)] ==
            IF k = 0 THEN 0 ELSE value[k - 1] * 10 + DigitVal(ds[k])
    IN  value[Len(ds)]

\* last position of the run of characters of the class chars that starts at b
\* (b - 1 when s[b] is not of the class)
RunEnd(s, b, chars) ==
    SetMax({b - 1} \cup {k \in b..Len(s) : \A j \in b..k : s[j] \in chars})

(***************************************************************************)
(* Fixture texts.                                                          *)
(***************************************************************************)
TxtYearsLiteral ==
    <<"y", "e", "a", "r", "s", " ", "i", "n", " ", "b", "u", "s", "i", "n", "e", "s", "s">>
TxtOpen ==
    <<"O", "p", "e", "n">>
TxtCloses ==
    <<"C", "l", "o", "s", "e", "s">>
TxtOnSite ==
    <<"O", "n", "-", "s", "i", "t", "e", " ", "s", "e", "r", "v", "i", "c", "e", "s">>
TxtJoe ==
    <<"J", "o", "e", "'", "s", " ", "P", "l", "u", "m", "b", "i", "n", "g">>
TxtAcme ==
    <<"A", "c", "m", "e">>
TxtLinePlumber ==
    <<"4", ".", "5", " ", "(", "1", ",", "2", "3", "4", ")", " ", MidDot, " ", "P", "l", "u", "m", "b", "e", "r">>
TxtLineBare ==
    <<"4", ".", "8", "(", "1", "2", ")">>
TxtLineNoReviews ==
    <<"N", "o", " ", "r", "e", "v", "i", "e", "w", "s", " ", MidDot, " ", "C", "a", "f", "e", " ">>
TxtLineBadGroup ==
    <<"3", ".", "9", " ", "(", "2", ",", "5", ")", " ", MidDot, " ">>
TxtDivYears ==
    <<"1", "0", "+", " ", "y", "e", "a", "r", "s", " ", "i", "n", " ", "b", "u", "s", "i", "n", "e", "s", "s">>
TxtDivYearsUpper ==
    <<"7", " ", "Y", "E", "A", "R", "S", " ", "I", "N", " ", "B", "U", "S", "I", "N", "E", "S", "S">>
TxtDivAddress ==
    <<" ", "1", "2", " ", "M", "a", "i", "n", " ", "S", "t", "r", "e", "e", "t", ",", " ", "S", "p", "r", "i", "n", "g", "f", "i", "e", "l", "d">>
TxtDivPhone ==
    <<"9", "8", "7", "6", "5", " ", "4", "3", "2", "1", "0">>
TxtDivHours ==
    <<"O", "p", "e", "n", " ", "2", "4", " ", "h", "o", "u", "r", "s", " ", "a", " ", "d", "a", "y">>
TxtDivShort ==
    <<"S", "h", "o", "r", "t", " ", "S", "t", " ", "5">>
TxtDivMixed ==
    <<"3", " ", "y", "e", "a", "r", "s", " ", "i", "n", " ", "b", "u", "s", "i", "n", "e", "s", "s", " ", MidDot, " ", "E", "l", "m", " ", "R", "o", "a", "d", " ", MidDot, " ", "0", "1", "2", "3", "4", "5", "6", "7", "8", "9">>

(***************************************************************************)
(* Listing fragments.  A fragment (the Selenium element of one listing) is *)
(* what the three lookups of parse_gmb_listing see:                        *)
(*   name   - text of "div.dbg0pd span", None when find_element raises     *)
(*            NoSuchElementException;                                      *)
(*   rating - text of "span.Y0A0hc", None when the sub-element is missing; *)
(*   divs   - the texts of the direct child blocks ("./div").              *)
(***************************************************************************)
Fragment(name, rating, divs) == [name |-> name, rating |-> rating, divs |-> divs]

\* The places of parse_gmb_listing at which an exception can be raised
\* (a failing driver call; the bare "except:" also catches an interrupt
\* raised at any line of its block).
FaultPoints ==
    {"none", "name", "rating_line", "rating", "reviews", "category",
     "child_blocks", "years", "phone", "address"}

\* re.search(r'(\d\.\d)', s): float of the leftmost match, as tenths
RatingOf(s) ==
    LET hits == {b \in 1..(Len(s) - 2) :
                    IsDigit(s[b]) /\ s[b + 1] = "." /\ IsDigit(s[b + 2])}
    IN  IF hits = {} THEN None
        ELSE LET b == SetMin(hits)
             IN  Some(DigitVal(s[b]) * 10 + DigitVal(s[b + 2]))

\* \d{1,3}(,\d{3})* matches the whole of the comma-separated parts
GroupedDigits(parts) ==
    /\ Len(parts[1]) \in 1..3
    /\ \A k \in 1..Len(parts) : AllDigits(parts[k])
    /\ \A k \in 2..Len(parts) : Len(parts[k]) = 3

\* \d{1,3}(,\d{3})*|\d+ matches the whole of g
ReviewGroup(g) == (Len(g) >= 1 /\ AllDigits(g)) \/ GroupedDigits(Split(g, ","))

\* the positions j of a ")" such that \((\d{1,3}(,\d{3})*|\d+)\) matches b..j
ReviewClose(s, b) ==
    {j \in (b + 1)..Len(s) : s[j] = ")" /\ ReviewGroup(SubSeq(s, b + 1, j - 1))}

ReviewCount(s, b, j) == Some(ParseInt(RemoveCommas(SubSeq(s, b + 1, j - 1))))

ReviewFirst(s, hits) ==
    IF hits = {} THEN None
    ELSE ReviewCount(s, SetMin(hits), SetMin(ReviewClose(s, SetMin(hits))))

\* re.search(r'\((\d{1,3}(,\d{3})*|\d+)\)', s): int of group 1, commas removed
ReviewsOf(s) ==
    ReviewFirst(s, {b \in 1..Len(s) : s[b] = "(" /\ ReviewClose(s, b) # {}})

\* k + 1 when the character after position k is a "+", else k
PlusEnd(s, k) == IF k + 1 <= Len(s) /\ s[k + 1] = "+" THEN k + 1 ELSE k

\* \s+years in business matches after position e
YearsTail(s, e, w) == w > e /\ MatchAt(Lower(s), w + 1, TxtYearsLiteral)

\* (\d+\+?)\+?\s+years in business matches at b, group 1 ending at g
YearsAt(s, b, g) ==
    /\ IsDigit(s[b])
    /\ YearsTail(s, PlusEnd(s, g), RunEnd(s, PlusEnd(s, g) + 1, SpaceChars))

\* end of group 1 (\d+\+?) of a match at b
YearsGroupEnd(s, b) == PlusEnd(s, RunEnd(s, b, DigitChars))

YearsGroup(s, hits) ==
    IF hits = {} THEN None
    ELSE Some(SubSeq(s, SetMin(hits), YearsGroupEnd(s, SetMin(hits))))

\* re.search(r'(\d+\+?)\+?\s+years in business', s, re.IGNORECASE): group 1
YearsOf(s) ==
    YearsGroup(s, {b \in 1..Len(s) : YearsAt(s, b, YearsGroupEnd(s, b))})

DigitOrSpaceChars == DigitChars \cup SpaceChars

\* length of the run of [0-9\s] at b when it has 8 characters or more, else 0
PhoneRunLen(n) == IF n >= 8 THEN n ELSE 0

\* length of the match of (\d{5}\s\d{5}|\d{10}|[0-9\s]{8,}) at position b,
\* 0 when no alternative matches there; the alternatives are tried in order
PhoneMatchLen(s, b) ==
    IF /\ b + 10 <= Len(s)
       /\ AllDigits(SubSeq(s, b, b + 4))
       /\ IsSpace(s[b + 5])
       /\ AllDigits(SubSeq(s, b + 6, b + 10))
    THEN 11
    ELSE IF b + 9 <= Len(s) /\ AllDigits(SubSeq(s, b, b + 9))
    THEN 10
    ELSE PhoneRunLen(RunEnd(s, b, DigitOrSpaceChars) - b + 1)

\* lines 218-219: the match is kept, stripped, when without its whitespace it
\* has at least 8 characters
PhoneKept(m) == IF Len(RemoveSpaces(m)) >= 8 THEN Some(Strip(m)) ELSE None

PhoneMatch(s, b) == PhoneKept(SubSeq(s, b, b + PhoneMatchLen(s, b) - 1))

PhoneFirst(s, hits) == IF hits = {} THEN None ELSE PhoneMatch(s, SetMin(hits))

\* lines 217-219: the leftmost match
PhoneOf(s) == PhoneFirst(s, {b \in 1..Len(s) : PhoneMatchLen(s, b) > 0})

\* line 222: the blocks the address scan passes over
AddressSkips(text, phone) ==
    \/ text = <<>>
    \/ Contains(Lower(text), TxtYearsLiteral)
    \/ (phone # None /\ Contains(text, phone[1]))
    \/ \E lit \in {<<MidDot>>, TxtOpen, TxtCloses, TxtOnSite} : Contains(text, lit)

\* lines 222-223: the block is an address
AddressBlock(text, phone) == ~AddressSkips(text, phone) /\ Len(text) > 15

AddressFirst(divs, ok) == IF ok = {} THEN None ELSE Some(Strip(divs[SetMin(ok)]))

\* lines 220-225: the first block that is not passed over and is longer
\* than 15 characters
AddressOf(divs, phone) ==
    AddressFirst(divs, {k \in 1..Len(divs) : AddressBlock(Strip(divs[k]), phone)})

\* line 203
NewRecord(keyword) ==
    [Keyword |-> keyword, Name |-> None, Rating |-> None,
     NumberOfReviews |-> None, Category |-> None, YearsInBusiness |-> None,
     Address |-> None, PhoneNumber |-> None]

\* lines 204-205: the first try block
ParseName(data, element, fault) ==
    IF fault = "name" \/ element.name = None
    THEN data
    ELSE [data EXCEPT !.Name = Some(element.name[1])]

\* an assignment guarded by "if match": nothing is assigned without a value
SetField(data, field, value) ==
    IF value = None THEN data ELSE [data EXCEPT ![field] = value]

\* the number of the statements steps of a try block that complete when the
\* exception is raised at fault: those before it, or all of them
StepsDone(fault, steps) ==
    IF \E k \in 1..Len(steps) : steps[k] = fault
    THEN (CHOOSE k \in 1..Len(steps) : steps[k] = fault) - 1
    ELSE Len(steps)

\* line 209
SetRating(data, parts, reached) ==
    IF reached THEN SetField(data, "Rating", RatingOf(parts[1])) ELSE data

\* line 210
SetReviews(data, parts, reached) ==
    IF reached THEN SetField(data, "NumberOfReviews", ReviewsOf(parts[1])) ELSE data

\* line 211
SetCategory(data, parts, reached) ==
    IF reached /\ Len(parts) > 1
    THEN [data EXCEPT !.Category = Some(Strip(parts[2]))]
    ELSE data

\* lines 209-211, of which the first done complete
RatingLineFields(data, parts, done) ==
    SetCategory(SetReviews(SetRating(data, parts, done >= 1), parts, done >= 2),
                parts, done >= 3)

\* lines 206-212: the second try block; an exception leaves the block, the
\* assignments made before it stay
ParseRatingLine(data, element, fault) ==
    IF fault = "rating_line" \/ element.rating = None THEN data
    ELSE RatingLineFields(data, Split(element.rating[1], MidDot),
                          StepsDone(fault, <<"rating", "reviews", "category">>))

\* line 215
FullText(details_divs) == JoinSpace(SelectSeq(details_divs, LAMBDA t : t # <<>>))

\* line 216
SetYears(data, full_text, reached) ==
    IF reached THEN SetField(data, "YearsInBusiness", YearsOf(full_text)) ELSE data

\* lines 217-219
SetPhone(data, full_text, reached) ==
    IF reached THEN SetField(data, "PhoneNumber", PhoneOf(full_text)) ELSE data

\* lines 220-225
SetAddress(data, details_divs, reached) ==
    IF reached
    THEN SetField(data, "Address", AddressOf(details_divs, data.PhoneNumber))
    ELSE data

\* lines 216-225, of which the first done complete
DetailFields(data, details_divs, full_text, done) ==
    SetAddress(SetPhone(SetYears(data, full_text, done >= 1), full_text, done >= 2),
               details_divs, done >= 3)

\* a variant in which any failure in the third block discards the whole block
ParseDetailsAllOrNothing(data, element, fault) ==
    IF fault \in {"child_blocks", "years", "phone", "address"} THEN data
    ELSE DetailFields(data, element.divs, FullText(element.divs), 3)

\* lines 213-226: the third try block
ParseDetails(data, element, fault) ==
    IF fault = "child_blocks" THEN data
    ELSE DetailFields(data, element.divs, FullText(element.divs),
                      StepsDone(fault, <<"years", "phone", "address">>))

\* parse_gmb_listing(element, keyword), with an exception raised at fault
parse_gmb_listing(element, keyword, fault) ==
    ParseDetails(ParseRatingLine(ParseName(NewRecord(keyword), element, fault),
                                 element, fault),
                 element, fault)

\* a variant that tests the Name against None only
HasNameNotNone(parsed_data) == parsed_data.Name # None

\* line 280: parsed_data.get("Name") is truthy
HasName(parsed_data) == parsed_data.Name # None /\ parsed_data.Name[1] # <<>>

(***************************************************************************)
(* Configuration and bounds.                                               *)
(***************************************************************************)
\* line 36
MAX_GMB_PAGES_TO_SCRAPE == 10

\* config.CAPTCHA_WAIT_TIMEOUT and config.CAPTCHA_CHECK_INTERVAL (lines 98
\* and 114), in units of the model's clock
CaptchaWaitTimeout == 3
CaptchaCheckInterval == 1

\* rows of the worksheet below the header row
MaxRows == 2
\* lines of the progress file when the run starts
MaxFileLines == 1

Keywords == {<<"a">>, <<"b">>}

\* cells of column 1 as the sheet returns them: padded, or blank
Cells == {<<"a">>, <<" ", "b", " ">>, <<" ">>}
HeaderCell == <<"K", "e", "y", "w", "o", "r", "d">>

\* the sequences over S of length at most n
SeqsUpTo(S, n) == UNION {[1..m -> S] : m \in 0..n}

\* worksheet.col_values(1): an empty sheet, or a header and up to MaxRows cells
SheetColumns == {<<>>} \cup {<<HeaderCell>> \o rows : rows \in SeqsUpTo(Cells, MaxRows)}

(***************************************************************************)
(* Progress store.  The progress file is None (no file) or Some(content),  *)
(* content being the characters of the file.                               *)
(***************************************************************************)
\* iteration over an open text file: the lines, without a last empty piece
FileLines(content) ==
    LET pieces == Split(content, "\n")
    IN  IF pieces[Len(pieces)] = <<>>
        THEN SubSeq(pieces, 1, Len(pieces) - 1)
        ELSE pieces

\* lines 74-81
load_completed_keywords(file) ==
    IF file = None THEN {}
    ELSE {Strip(FileLines(file[1])[k]) : k \in 1..Len(FileLines(file[1]))}

\* lines 83-87: open(path, 'a') creates the file when it is missing
save_completed_keyword(file, keyword) ==
    Some((IF file = None THEN <<>> ELSE file[1]) \o keyword \o <<"\n">>)

\* the file after save_completed_keyword was called for each of kws in turn
WriteAll(file, kws) ==
    LET written[k \in 0..Len(kws)] ==
            IF k = 0 THEN file ELSE save_completed_keyword(written[k - 1], kws[k])
    IN  written[Len(kws)]

\* the progress files an earlier run can have left: none, or one written by
\* save_completed_keyword
ProgressFiles == {WriteAll(None, kws) : kws \in SeqsUpTo(Keywords, MaxFileLines)}

\* lines 166-170
get_keywords_from_sheet(col_values) ==
    LET below == IF col_values = <<>> THEN <<>> ELSE Tail(col_values)
        kept == SelectSeq(below, LAMBDA kw : Strip(kw) # <<>>)
    IN  [k \in 1..Len(kept) |-> Strip(kept[k])]

\* a variant that never skips
IsCompletedNever(keyword, completed) == FALSE

\* line 244
IsCompleted(keyword, completed) == keyword \in completed

(***************************************************************************)
(* The results site: what driver.find_elements(GMB_LISTING_CONTAINER)      *)
(* returns on result page p of a keyword when the page has listings.       *)
(***************************************************************************)
FragFull ==
    Fragment(Some(TxtJoe), Some(TxtLinePlumber),
             <<TxtDivYears, TxtDivAddress, TxtDivPhone>>)
FragNoName == Fragment(None, Some(TxtLineBare), <<TxtDivPhone, TxtDivHours>>)
FragEmptyName == Fragment(Some(<<>>), None, <<TxtDivShort>>)
FragAcme == Fragment(Some(TxtAcme), Some(TxtLineNoReviews), <<TxtDivMixed>>)

SitePage(keyword, p) ==
    LET r == (p + (IF keyword = <<"a">> THEN 0 ELSE 1)) % 3
    IN  CASE r = 2 -> <<FragFull, FragNoName, FragAcme>>
          [] r = 0 -> <<FragEmptyName, FragNoName>>
          [] OTHER -> <<FragAcme>>

SiteFragments == {FragFull, FragNoName, FragEmptyName, FragAcme}

\* line 279 in the run: parse_gmb_listing(listing_element, keyword), tabulated
ParsedListing ==
    [f \in SiteFragments, k \in Keywords |-> parse_gmb_listing(f, k, "none")]

\* a variant with an inclusive bound one too far
PageRangeOneMore == 1..(MAX_GMB_PAGES_TO_SCRAPE + 1)

\* line 271: range(1, MAX_GMB_PAGES_TO_SCRAPE + 1)
PageRange == 1..MAX_GMB_PAGES_TO_SCRAPE

\* lines 278-280: the records of one page that are appended, in page order
PageRecords(found, keyword) ==
    SelectSeq([k \in 1..Len(found) |-> ParsedListing[found[k], keyword]], HasName)

\* where the appended records of one page come from: <<keyword index, page,
\* position on the page>>
PageOrigins(found, keyword, idx, page) ==
    LET at == SelectSeq([k \in 1..Len(found) |-> k],
                        LAMBDA k : HasName(ParsedListing[found[k], keyword]))
    IN  [n \in 1..Len(at) |-> <<idx, page, at[n]>>]

\* list.append, one record after another
Accumulate(acc, items) == acc \o items

(***************************************************************************)
(* State of one run of the main block (lines 232-308).                     *)
(***************************************************************************)
VARIABLES
    pc,                 \* position in the main block
    email_enabled,      \* config.ENABLE_EMAIL_NOTIFICATIONS
    progress_file,      \* the progress file on disk
    completed_keywords, \* line 237
    keywords_to_scrape, \* line 240
    driver,             \* line 234/241: TRUE when the variable holds a driver
    browser,            \* the Chrome session: "none", "open" or "closed"
    i,                  \* position of the keyword loop in keywords_to_scrape
    all_gmb_data,       \* line 235
    page_num,           \* line 271
    listings,           \* line 275
    alert_sent,         \* line 94
    elapsed,            \* time.time() - start_time of handle_captcha
    export_file,        \* the Excel file: None or Some(rows)
    \* history of the run, read by the properties only
    last,               \* what the last step did
    captcha,            \* the handle_captcha call in progress or just ended
    navigated,          \* keywords for which driver.get was called
    saved,              \* arguments of the save_completed_keyword calls
    origin,             \* for each record of all_gmb_data, where it was found
    pages,              \* pagination of the current keyword
    crash,              \* where a fatal error was raised, mails of the handler
    quit_calls,         \* calls of driver.quit
    \* the parser on its own (SpecParse)
    listing_element, raise_at, parse_result

runVars ==
    <<pc, email_enabled, progress_file, completed_keywords, keywords_to_scrape,
      driver, browser, i, all_gmb_data, page_num, listings, alert_sent, elapsed,
      export_file, last, captcha, navigated, saved, origin, pages, crash,
      quit_calls>>
parseVars == <<listing_element, raise_at, parse_result>>
vars == <<runVars, parseVars>>

NoCaptcha == [result |-> "none", polls |-> 0, present |-> 0, alerts |-> 0,
              polls_before_alert |-> 0]
NoPages == [scraped |-> 0, next_lookups |-> 0, next_clicks |-> 0,
            expand_attempted |-> FALSE, data_before |-> 0]
NoCrash == [site |-> "none", mails |-> 0]

RunInit ==
    /\ pc = "load_progress"
    /\ email_enabled \in BOOLEAN
    /\ progress_file \in ProgressFiles
    /\ completed_keywords = {}
    /\ keywords_to_scrape = <<>>
    /\ driver = FALSE
    /\ browser = "none"
    /\ i = 1
    /\ all_gmb_data = <<>>
    /\ page_num = 0
    /\ listings = <<>>
    /\ alert_sent = FALSE
    /\ elapsed = 0
    /\ export_file = None
    /\ last = "start"
    /\ captcha = NoCaptcha
    /\ navigated = {}
    /\ saved = <<>>
    /\ origin = <<>>
    /\ pages = NoPages
    /\ crash = NoCrash
    /\ quit_calls = 0

ParseIdle == listing_element = FragEmptyName /\ raise_at = "none" /\ parse_result = None

Init == RunInit /\ ParseIdle

ThisKeyword == keywords_to_scrape[i]

\* an exception that no handler inside the try block catches (line 300)
Raise(site) ==
    /\ pc' = "except"
    /\ crash' = [crash EXCEPT !.site = site]
    /\ last' = "raise"

\* save_completed_keyword(keyword) as called by the main block
Save ==
    /\ progress_file' = save_completed_keyword(progress_file, ThisKeyword)
    /\ saved' = Append(saved, ThisKeyword)

\* "continue" (and the end of the loop body): on to the next keyword
Continue == i' = i + 1 /\ pc' = "loop"

\* send_error_email (lines 59-72): nothing when notifications are disabled;
\* a failure of the mail relay is caught and logged
MailsSent(enabled) == IF enabled THEN 1 ELSE 0

\* line 237
LoadCompleted ==
    /\ pc = "load_progress"
    /\ \/ /\ completed_keywords' = load_completed_keywords(progress_file)
          /\ pc' = "fetch_keywords"
          /\ last' = "loaded"
          /\ UNCHANGED crash
       \/ /\ Raise("startup")
          /\ UNCHANGED completed_keywords
    /\ UNCHANGED <<email_enabled, progress_file, keywords_to_scrape, driver,
                   browser, i, all_gmb_data, page_num, listings, alert_sent,
                   elapsed, export_file, captcha, navigated, saved, origin,
                   pages, quit_calls, parseVars>>

\* lines 238-240
FetchKeywords ==
    /\ pc = "fetch_keywords"
    /\ \/ \E col_values \in SheetColumns :
             /\ keywords_to_scrape' = get_keywords_from_sheet(col_values)
             /\ pc' = "get_driver"
             /\ last' = "fetched"
             /\ UNCHANGED crash
       \/ /\ Raise("startup")
          /\ UNCHANGED keywords_to_scrape
    /\ UNCHANGED <<email_enabled, progress_file, completed_keywords, driver,
                   browser, i, all_gmb_data, page_num, listings, alert_sent,
                   elapsed, export_file, captcha, navigated, saved, origin,
                   pages, quit_calls, parseVars>>

\* line 241 and get_humanlike_driver (lines 146-157): webdriver.Chrome can
\* fail (no session); set_page_load_timeout can fail after the session was
\* started, before the driver is returned and assigned
GetDriver ==
    /\ pc = "get_driver"
    /\ \/ /\ Raise("startup")
          /\ UNCHANGED <<driver, browser>>
       \/ /\ browser' = "open"
          /\ Raise("startup")
          /\ UNCHANGED driver
       \/ /\ browser' = "open"
          /\ driver' = TRUE
          /\ pc' = "loop"
          /\ last' = "driver"
          /\ UNCHANGED crash
    /\ UNCHANGED <<email_enabled, progress_file, completed_keywords,
                   keywords_to_scrape, i, all_gmb_data, page_num, listings,
                   alert_sent, elapsed, export_file, captcha, navigated, saved,
                   origin, pages, quit_calls, parseVars>>

\* lines 243-246: a keyword of the loaded progress set is skipped
SkipKeyword ==
    /\ pc = "loop"
    /\ i <= Len(keywords_to_scrape)
    /\ IsCompleted(ThisKeyword, completed_keywords)
    /\ Continue
    /\ last' = "skipped"
    /\ captcha' = NoCaptcha
    /\ UNCHANGED <<email_enabled, progress_file, completed_keywords,
                   keywords_to_scrape, driver, browser, all_gmb_data, page_num,
                   listings, alert_sent, elapsed, export_file, navigated, saved,
                   origin, pages, crash, quit_calls, parseVars>>

\* lines 248-251: driver.get, handle_cookie_consent (which catches what it
\* raises) and the pause
LoadPage ==
    /\ pc = "loop"
    /\ i <= Len(keywords_to_scrape)
    /\ ~IsCompleted(ThisKeyword, completed_keywords)
    /\ navigated' = navigated \cup {ThisKeyword}
    /\ captcha' = NoCaptcha
    /\ pages' = [NoPages EXCEPT !.data_before = Len(all_gmb_data)]
    /\ \/ /\ pc' = "search"
          /\ last' = "page_loaded"
          /\ UNCHANGED crash
       \/ Raise("keyword")
    /\ UNCHANGED <<email_enabled, progress_file, completed_keywords,
                   keywords_to_scrape, driver, browser, i, all_gmb_data,
                   page_num, listings, alert_sent, elapsed, export_file, saved,
                   origin, quit_calls, parseVars>>

\* line 253 and find_and_type_in_search_box (lines 172-183)
TypeSearch ==
    /\ pc = "search"
    /\ \/ /\ pc' = "captcha_check"
          /\ last' = "typed"
          /\ UNCHANGED <<i, crash>>
       \/ /\ Continue
          /\ last' = "no_search_box"
          /\ UNCHANGED crash
       \/ /\ Raise("keyword")
          /\ UNCHANGED i
    /\ UNCHANGED <<email_enabled, progress_file, completed_keywords,
                   keywords_to_scrape, driver, browser, all_gmb_data, page_num,
                   listings, alert_sent, elapsed, export_file, captcha,
                   navigated, saved, origin, pages, quit_calls, parseVars>>

\* line 256, and the entry of handle_captcha (lines 94-96) when the iframe
\* is there
CaptchaCheck ==
    /\ pc = "captcha_check"
    /\ \/ /\ pc' = "captcha_wait"
          /\ alert_sent' = FALSE
          /\ elapsed' = 0
          /\ captcha' = [NoCaptcha EXCEPT !.result = "waiting"]
          /\ last' = "captcha_detected"
          /\ UNCHANGED crash
       \/ /\ pc' = "expand"
          /\ last' = "no_captcha"
          /\ UNCHANGED <<alert_sent, elapsed, captcha, crash>>
       \/ /\ Raise("keyword")
          /\ UNCHANGED <<alert_sent, elapsed, captcha>>
    /\ UNCHANGED <<email_enabled, progress_file, completed_keywords,
                   keywords_to_scrape, driver, browser, i, all_gmb_data,
                   page_num, listings, export_file, navigated, saved, origin,
                   pages, quit_calls, parseVars>>

\* handle_captcha returns or raises: its frame, with alert_sent and the clock
\* of the wait, is gone
ReturnFromCaptcha == alert_sent' = FALSE /\ elapsed' = 0

\* a variant that does not consult alert_sent
AlertsAfterPollAlways(c, sent, enabled) ==
    [c EXCEPT !.alerts = c.alerts + MailsSent(enabled),
              !.polls_before_alert = c.polls + 1]

\* lines 103-112: the alert of one poll that found the iframe
AlertsAfterPoll(c, sent, enabled) ==
    IF sent THEN c
    ELSE [c EXCEPT !.alerts = c.alerts + MailsSent(enabled),
                   !.polls_before_alert = c.polls + 1]

\* lines 98-115: one turn of the while loop of handle_captcha
CaptchaPoll ==
    /\ pc = "captcha_wait"
    /\ elapsed < CaptchaWaitTimeout
    /\ \/ /\ pc' = "expand"
          /\ captcha' = [captcha EXCEPT !.result = "RESOLVED",
                                        !.polls = captcha.polls + 1]
          /\ last' = "captcha_resolved"
          /\ ReturnFromCaptcha
          /\ UNCHANGED crash
       \/ /\ captcha' = [AlertsAfterPoll(captcha, alert_sent, email_enabled)
                            EXCEPT !.polls = captcha.polls + 1,
                                   !.present = captcha.present + 1]
          /\ alert_sent' = TRUE
          /\ elapsed' = elapsed + CaptchaCheckInterval
          /\ last' = "captcha_poll"
          /\ UNCHANGED <<pc, crash>>
       \/ /\ Raise("keyword")
          /\ ReturnFromCaptcha
          /\ UNCHANGED captcha
    /\ UNCHANGED <<email_enabled, progress_file, completed_keywords,
                   keywords_to_scrape, driver, browser, i, all_gmb_data,
                   page_num, listings, export_file, navigated, saved, origin,
                   pages, quit_calls, parseVars>>

\* a variant of the timeout path that continues without saving the keyword
CaptchaTimeoutUnsaved ==
    /\ pc = "captcha_wait"
    /\ ~(elapsed < CaptchaWaitTimeout)
    /\ captcha' = [captcha EXCEPT !.result = "TIMED_OUT"]
    /\ Continue
    /\ last' = "captcha_timeout"
    /\ ReturnFromCaptcha
    /\ UNCHANGED <<email_enabled, progress_file, completed_keywords,
                   keywords_to_scrape, driver, browser, all_gmb_data, page_num,
                   listings, export_file, navigated, saved, origin, pages,
                   crash, quit_calls, parseVars>>

\* lines 98, 117-118 and 257-259: the wait is over, the keyword is saved and
\* the loop continues
CaptchaTimeout ==
    /\ pc = "captcha_wait"
    /\ ~(elapsed < CaptchaWaitTimeout)
    /\ captcha' = [captcha EXCEPT !.result = "TIMED_OUT"]
    /\ \/ /\ Save
          /\ Continue
          /\ last' = "captcha_timeout"
          /\ UNCHANGED crash
       \/ /\ Raise("keyword")
          /\ UNCHANGED <<progress_file, saved, i>>
    /\ ReturnFromCaptcha
    /\ UNCHANGED <<email_enabled, completed_keywords, keywords_to_scrape,
                   driver, browser, all_gmb_data, page_num, listings,
                   export_file, navigated, origin, pages, quit_calls,
                   parseVars>>

\* lines 261-269: the "More businesses" control
Expand ==
    /\ pc = "expand"
    /\ captcha' = NoCaptcha
    /\ pages' = [pages EXCEPT !.expand_attempted = TRUE]
    /\ \/ /\ pc' = "page"
          /\ page_num' = 1
          /\ last' = "expanded"
          /\ UNCHANGED <<progress_file, saved, i, crash>>
       \/ /\ Save
          /\ Continue
          /\ last' = "no_more_button"
          /\ UNCHANGED <<page_num, crash>>
       \/ /\ Raise("keyword")
          /\ UNCHANGED <<progress_file, saved, i, page_num>>
    /\ UNCHANGED <<email_enabled, completed_keywords, keywords_to_scrape,
                   driver, browser, all_gmb_data, listings, alert_sent, elapsed,
                   export_file, navigated, origin, quit_calls, parseVars>>

\* lines 271-287: one turn of the pagination loop
ScrapePage ==
    /\ pc = "page"
    /\ \/ /\ Raise("keyword")
          /\ UNCHANGED <<all_gmb_data, origin, listings, page_num, pages>>
       \/ \E found \in {<<>>, SitePage(ThisKeyword, page_num)} :
             /\ listings' = found
             /\ UNCHANGED crash
             /\ IF found = <<>>
                THEN \* line 277
                     /\ pc' = "finish_kw"
                     /\ last' = "page_empty"
                     /\ pages' = [pages EXCEPT !.scraped = pages.scraped + 1]
                     /\ UNCHANGED <<all_gmb_data, origin, page_num>>
                ELSE /\ all_gmb_data' =
                            Accumulate(all_gmb_data, PageRecords(found, ThisKeyword))
                     /\ origin' =
                            Accumulate(origin,
                                       PageOrigins(found, ThisKeyword, i, page_num))
                     /\ \/ \* lines 282-284: the "next" control is clicked
                           /\ pages' = [pages EXCEPT
                                           !.scraped = pages.scraped + 1,
                                           !.next_lookups = pages.next_lookups + 1,
                                           !.next_clicks = pages.next_clicks + 1]
                           /\ IF page_num + 1 \in PageRange
                              THEN /\ page_num' = page_num + 1
                                   /\ pc' = "page"
                                   /\ last' = "page_next"
                              ELSE /\ pc' = "finish_kw"
                                   /\ last' = "page_max"
                                   /\ UNCHANGED page_num
                        \/ \* lines 285-287: NoSuchElementException
                           /\ pages' = [pages EXCEPT
                                           !.scraped = pages.scraped + 1,
                                           !.next_lookups = pages.next_lookups + 1]
                           /\ pc' = "finish_kw"
                           /\ last' = "page_last"
                           /\ UNCHANGED page_num
       \/ \* the records of the page are appended, then the click raises
          /\ SitePage(ThisKeyword, page_num) # <<>>
          /\ listings' = SitePage(ThisKeyword, page_num)
          /\ all_gmb_data' = Accumulate(all_gmb_data, PageRecords(listings', ThisKeyword))
          /\ origin' = Accumulate(origin, PageOrigins(listings', ThisKeyword, i, page_num))
          /\ pages' = [pages EXCEPT !.scraped = pages.scraped + 1,
                                    !.next_lookups = pages.next_lookups + 1]
          /\ Raise("keyword")
          /\ UNCHANGED page_num
    /\ UNCHANGED <<email_enabled, progress_file, completed_keywords,
                   keywords_to_scrape, driver, browser, i, alert_sent, elapsed,
                   export_file, captcha, navigated, saved, quit_calls, parseVars>>

\* lines 289-291
FinishKeyword ==
    /\ pc = "finish_kw"
    /\ \/ /\ Save
          /\ Continue
          /\ last' = "keyword_done"
          /\ UNCHANGED crash
       \/ /\ Raise("keyword")
          /\ UNCHANGED <<progress_file, saved, i>>
    /\ UNCHANGED <<email_enabled, completed_keywords, keywords_to_scrape,
                   driver, browser, all_gmb_data, page_num, listings,
                   alert_sent, elapsed, export_file, captcha, navigated, origin,
                   pages, quit_calls, parseVars>>

\* line 243: the keywords are exhausted
LoopExit ==
    /\ pc = "loop"
    /\ i > Len(keywords_to_scrape)
    /\ pc' = "export"
    /\ last' = "loop_exit"
    /\ captcha' = NoCaptcha
    /\ UNCHANGED <<email_enabled, progress_file, completed_keywords,
                   keywords_to_scrape, driver, browser, i, all_gmb_data,
                   page_num, listings, alert_sent, elapsed, export_file,
                   navigated, saved, origin, pages, crash, quit_calls, parseVars>>

\* a variant that leaves the last record out
ExportRowsButLast(data) == SubSeq(data, 1, Len(data) - 1)

\* line 296: pd.DataFrame(all_gmb_data).to_excel(output_path, index=False)
ExportRows(data) == data

\* lines 293-299, inside the try block
Export ==
    /\ pc = "export"
    /\ \/ /\ all_gmb_data # <<>>
          /\ export_file' = Some(ExportRows(all_gmb_data))
          /\ pc' = "finally"
          /\ last' = "exported"
          /\ UNCHANGED crash
       \/ /\ all_gmb_data # <<>>
          /\ Raise("export")
          /\ UNCHANGED export_file
       \/ /\ all_gmb_data = <<>>
          /\ pc' = "finally"
          /\ last' = "nothing_to_export"
          /\ UNCHANGED <<export_file, crash>>
    /\ UNCHANGED <<email_enabled, progress_file, completed_keywords,
                   keywords_to_scrape, driver, browser, i, all_gmb_data,
                   page_num, listings, alert_sent, elapsed, captcha, navigated,
                   saved, origin, pages, quit_calls, parseVars>>

\* lines 300-303: the handler of the fatal error logs and sends the crash mail
Except ==
    /\ pc = "except"
    /\ crash' = [crash EXCEPT !.mails = MailsSent(email_enabled)]
    /\ pc' = "finally"
    /\ last' = "crash_handled"
    /\ UNCHANGED <<email_enabled, progress_file, completed_keywords,
                   keywords_to_scrape, driver, browser, i, all_gmb_data,
                   page_num, listings, alert_sent, elapsed, export_file,
                   captcha, navigated, saved, origin, pages, quit_calls,
                   parseVars>>

\* lines 304-307
Finally ==
    /\ pc = "finally"
    /\ IF driver
       THEN browser' = "closed" /\ quit_calls' = quit_calls + 1
       ELSE UNCHANGED <<browser, quit_calls>>
    /\ pc' = "finished"
    /\ last' = "end"
    /\ UNCHANGED <<email_enabled, progress_file, completed_keywords,
                   keywords_to_scrape, driver, i, all_gmb_data, page_num,
                   listings, alert_sent, elapsed, export_file, captcha,
                   navigated, saved, origin, pages, crash, parseVars>>

Next ==
    \/ LoadCompleted
    \/ FetchKeywords
    \/ GetDriver
    \/ SkipKeyword
    \/ LoadPage
    \/ TypeSearch
    \/ CaptchaCheck
    \/ CaptchaPoll
    \/ CaptchaTimeout
    \/ Expand
    \/ ScrapePage
    \/ FinishKeyword
    \/ LoopExit
    \/ Export
    \/ Except
    \/ Finally

Spec == Init /\ [][Next]_vars

(***************************************************************************)
(* The parser on its own: one fragment, one place where an exception is    *)
(* raised, one call of parse_gmb_listing.                                  *)
(***************************************************************************)
ParseNames == {None, Some(<<>>), Some(TxtJoe), Some(TxtAcme)}
ParseRatings ==
    {None, Some(TxtLinePlumber), Some(TxtLineBare), Some(TxtLineNoReviews),
     Some(TxtLineBadGroup)}
ParseDivLists ==
    {<<>>,
     <<TxtDivYears, TxtDivAddress, TxtDivPhone>>,
     <<TxtDivPhone, TxtDivHours, TxtDivShort>>,
     <<TxtDivYearsUpper, <<>>, TxtDivShort, TxtDivAddress>>,
     <<TxtDivMixed, TxtJoe>>}
ParseFragments ==
    {Fragment(n, r, d) : n \in ParseNames, r \in ParseRatings, d \in ParseDivLists}
ParseKeyword == <<"a">>

RunIdle ==
    /\ pc = "parser"
    /\ email_enabled = FALSE
    /\ progress_file = None
    /\ completed_keywords = {}
    /\ keywords_to_scrape = <<ParseKeyword>>
    /\ driver = FALSE
    /\ browser = "none"
    /\ i = 1
    /\ all_gmb_data = <<>>
    /\ page_num = 0
    /\ listings = <<>>
    /\ alert_sent = FALSE
    /\ elapsed = 0
    /\ export_file = None
    /\ last = "start"
    /\ captcha = NoCaptcha
    /\ navigated = {}
    /\ saved = <<>>
    /\ origin = <<>>
    /\ pages = NoPages
    /\ crash = NoCrash
    /\ quit_calls = 0

InitParse ==
    /\ RunIdle
    /\ listing_element \in ParseFragments
    /\ raise_at \in FaultPoints
    /\ parse_result = None

\* line 279: parsed_data := parse_gmb_listing(listing_element, keyword)
ParseListing ==
    /\ pc = "parser"
    /\ parse_result = None
    /\ parse_result' = Some(parse_gmb_listing(listing_element, ThisKeyword, raise_at))
    /\ UNCHANGED <<runVars, listing_element, raise_at>>

NextParse == ParseListing

SpecParse == InitParse /\ [][NextParse]_vars

(***************************************************************************)
(* Properties.                                                             *)
(***************************************************************************)
InputKeywords == {keywords_to_scrape[n] : n \in 1..Len(keywords_to_scrape)}
TimesSaved(kw) == Cardinality({m \in 1..Len(saved) : saved[m] = kw})
RunEndedNormally == pc = "finished" /\ crash.site = "none"

\* C1: Resumption.  A keyword of the progress set loaded at the start is
\* never navigated to, never saved and never the keyword of a record, and
\* the only writes to the progress file are saves of a keyword that is not in
\* the loaded set; when the run ends without a fatal error, the keywords
\* navigated to are exactly the input keywords outside the loaded set.
C1_Resumption ==
    /\ [](/\ navigated \cap completed_keywords = {}
          /\ \A m \in 1..Len(saved) : saved[m] \notin completed_keywords
          /\ \A n \in 1..Len(all_gmb_data) :
                all_gmb_data[n].Keyword \notin completed_keywords
          /\ RunEndedNormally =>
                navigated = InputKeywords \ completed_keywords)
    /\ [][progress_file' # progress_file =>
            /\ ThisKeyword \notin completed_keywords
            /\ progress_file' = save_completed_keyword(progress_file, ThisKeyword)]_vars

\* C1 witness: a finished run, without a fatal error, in which one input
\* keyword was skipped and another one was navigated to.
C1_Witness ==
    /\ RunEndedNormally
    /\ InputKeywords \cap completed_keywords # {}
    /\ navigated # {}

\* C2: in a run that ends without a fatal error, save is called exactly once
\* for every input keyword text that is not in the loaded progress set.
C2_SavedExactlyOnce ==
    RunEndedNormally =>
        \A kw \in InputKeywords \ completed_keywords : TimesSaved(kw) = 1

\* C3: when the search box is not found, the keyword is recorded as completed
\* (appended to the progress file) and the loop goes on to the next keyword.
C3_NoSearchBoxIsSaved ==
    last = "no_search_box" =>
        /\ pc = "loop"
        /\ saved # <<>>
        /\ saved[Len(saved)] = keywords_to_scrape[i - 1]

CaptchaEnded == captcha.result \in {"RESOLVED", "TIMED_OUT"}

\* C4: with notifications enabled, every CAPTCHA occurrence sends exactly one
\* notification, and sends it on detection, before the first poll.
C4_ExactlyOneAlertOnDetection ==
    (CaptchaEnded /\ email_enabled) =>
        captcha.alerts = 1 /\ captcha.polls_before_alert = 0

\* C4 as amended: a CAPTCHA occurrence sends at most one notification; with
\* notifications enabled it sends one exactly when a poll of handle_captcha
\* found the iframe still there, and it sends it after the first poll.
C4_AtMostOneAlertAfterFirstPoll ==
    /\ captcha.alerts <= 1
    /\ captcha.alerts = 1 <=> (email_enabled /\ captcha.present >= 1)
    /\ captcha.alerts = 1 => captcha.polls_before_alert = 1
    /\ pc = "captcha_wait" => (alert_sent <=> captcha.present >= 1)

\* C4 witness: a wait that timed out after several polls and sent one alert.
C4_Witness ==
    /\ captcha.result = "TIMED_OUT"
    /\ captcha.present >= 2
    /\ captcha.alerts = 1

\* C5: CAPTCHA wait outcomes.  A poll before the timeout that finds the iframe
\* gone ends the wait RESOLVED and the same keyword goes on to the expansion
\* step; once the timeout has elapsed the wait ends TIMED_OUT: the keyword is
\* appended to the progress file, no record is accumulated for it, neither
\* expansion nor pagination is attempted, no further notification is sent and
\* the loop moves to the next keyword.
C5_CaptchaOutcomes ==
    /\ [](last = "captcha_timeout" =>
            /\ pc = "loop"
            /\ captcha.result = "TIMED_OUT"
            /\ saved # <<>>
            /\ saved[Len(saved)] = keywords_to_scrape[i - 1]
            /\ keywords_to_scrape[i - 1] \in load_completed_keywords(progress_file)
            /\ Len(all_gmb_data) = pages.data_before
            /\ ~pages.expand_attempted
            /\ pages.scraped = 0)
    /\ [](captcha.result = "RESOLVED" =>
            /\ pc = "expand"
            /\ ~pages.expand_attempted
            /\ Len(all_gmb_data) = pages.data_before)
    /\ [][(pc = "captcha_wait" /\ captcha'.result = "RESOLVED") =>
            /\ elapsed < CaptchaWaitTimeout
            /\ pc' = "expand"
            /\ i' = i
            /\ UNCHANGED <<saved, progress_file, all_gmb_data>>]_vars
    /\ [][(pc = "captcha_wait" /\ ~(elapsed < CaptchaWaitTimeout) /\ pc' # "except") =>
            /\ captcha'.result = "TIMED_OUT"
            /\ captcha'.alerts = captcha.alerts
            /\ saved' = Append(saved, ThisKeyword)
            /\ i' = i + 1
            /\ pc' = "loop"
            /\ UNCHANGED <<all_gmb_data, pages>>]_vars

\* C5 witness: a keyword abandoned on CAPTCHA timeout after one alert, while
\* records of an earlier keyword are held.
C5_Witness ==
    /\ last = "captcha_timeout"
    /\ captcha.alerts = 1
    /\ all_gmb_data # <<>>

\* C6: pagination of one keyword scrapes at most MAX_GMB_PAGES_TO_SCRAPE
\* pages; it goes on to another page only after a page with listings whose
\* "next" control was found and clicked, and it ends at the first page with
\* no listings (without looking for "next") or at the first page without a
\* "next" control (after the listings of that page were parsed).
C6_Pagination ==
    /\ pages.scraped <= MAX_GMB_PAGES_TO_SCRAPE
    /\ pc = "page" =>
          /\ page_num = pages.scraped + 1
          /\ page_num <= MAX_GMB_PAGES_TO_SCRAPE
          /\ pages.next_lookups = pages.scraped
          /\ pages.next_clicks = pages.scraped
          /\ pages.scraped > 0 => listings # <<>>
    /\ pc = "finish_kw" =>
          /\ page_num = pages.scraped
          /\ \/ /\ last = "page_empty"
                /\ listings = <<>>
                /\ pages.next_lookups = pages.scraped - 1
                /\ pages.next_clicks = pages.scraped - 1
             \/ /\ last = "page_last"
                /\ listings # <<>>
                /\ pages.next_lookups = pages.scraped
                /\ pages.next_clicks = pages.scraped - 1
                /\ \A k \in 1..Len(listings) :
                      (listings[k].name # None /\ listings[k].name[1] # <<>>) =>
                          \E n \in 1..Len(origin) : origin[n] = <<i, page_num, k>>
             \/ /\ last = "page_max"
                /\ listings # <<>>
                /\ pages.scraped = MAX_GMB_PAGES_TO_SCRAPE
                /\ pages.next_clicks = pages.scraped

\* C6 witness: pagination that ended because the maximum was reached.
C6_Witness ==
    /\ pc = "finish_kw"
    /\ last = "page_max"
    /\ pages.scraped = MAX_GMB_PAGES_TO_SCRAPE

\* C7: on every way the keyword loop ends, a fatal error included, the
\* records accumulated so far are written to the export file if there is one.
C7_ExportOnEveryExit ==
    (pc = "finished" /\ all_gmb_data # <<>> /\ crash.site # "export") =>
        export_file = Some(all_gmb_data)

\* C7 as amended: the export file is written only after the keywords were
\* exhausted, with all the records, if there is at least one; after a fatal
\* error nothing is written and the accumulated records are lost.
C7_ExportOnlyAfterLoop ==
    /\ export_file # None =>
          /\ pc \in {"finally", "finished"}
          /\ crash.site = "none"
          /\ all_gmb_data # <<>>
          /\ export_file = Some(all_gmb_data)
    /\ (RunEndedNormally /\ all_gmb_data # <<>>) =>
          export_file = Some(all_gmb_data)
    /\ (pc = "finished" /\ crash.site # "none") => export_file = None

\* C7 witness: a fatal error while a later keyword is processed, with records
\* of an earlier keyword accumulated and nothing exported.
C7_Witness ==
    /\ pc = "finished"
    /\ crash.site = "keyword"
    /\ \E n \in 1..Len(origin) : origin[n][1] < i
    /\ export_file = None

\* <<keyword index, page, position>> in lexicographic order
Before(a, c) ==
    \/ a[1] < c[1]
    \/ a[1] = c[1] /\ a[2] < c[2]
    \/ a[1] = c[1] /\ a[2] = c[2] /\ a[3] < c[3]

\* the fragments of every page of every keyword
SiteTable == [w \in Keywords, p \in PageRange |-> SitePage(w, p)]

\* C8: every record of the result set has a non-empty Name and carries the
\* keyword that was processed when it was parsed; it is the parse of a
\* fragment with a name; no record with an absent or empty Name is there; the
\* records are in the order keyword, page, position on the page.
C8_ResultSet ==
    /\ Len(origin) = Len(all_gmb_data)
    /\ \A n \in 1..Len(all_gmb_data) :
          LET r == all_gmb_data[n]
              o == origin[n]
              kw == keywords_to_scrape[o[1]]
          IN  /\ r.Name # None
              /\ r.Name[1] # <<>>
              /\ o[1] <= i
              /\ r.Keyword = kw
              /\ o[2] \in PageRange
              /\ o[3] \in 1..Len(SiteTable[kw, o[2]])
              /\ r = ParsedListing[SiteTable[kw, o[2]][o[3]], kw]
              /\ n > 1 => Before(origin[n - 1], o)
    /\ pc = "page" =>
          LET origins == {origin[n] : n \in 1..Len(origin)}
          IN  \A q \in 1..(page_num - 1) :
                 \A k \in 1..Len(SiteTable[ThisKeyword, q]) :
                    LET name == SiteTable[ThisKeyword, q][k].name
                    IN  (name # None /\ name[1] # <<>>) <=> <<i, q, k>> \in origins

\* C8 witness: records of two keywords, one of them from the third position
\* of a page whose second fragment has no name.
C8_Witness ==
    /\ \E n, m \in 1..Len(all_gmb_data) :
          all_gmb_data[n].Keyword # all_gmb_data[m].Keyword
    /\ \E n \in 1..Len(origin) : origin[n][3] = 3

\* C9: on every exit path on which a browser session was opened, driver.quit
\* is called exactly once before the process finishes.
C9_TeardownOnEveryExit ==
    (pc = "finished" /\ browser # "none") =>
        quit_calls = 1 /\ browser = "closed"

RecordFields ==
    {"Name", "Rating", "NumberOfReviews", "Category", "YearsInBusiness",
     "PhoneNumber", "Address"}

\* the fields whose extraction is at the place where the exception is raised
FailedFields(at) ==
    CASE at = "name" -> {"Name"}
      [] at = "rating_line" -> {"Rating", "NumberOfReviews", "Category"}
      [] at = "rating" -> {"Rating"}
      [] at = "reviews" -> {"NumberOfReviews"}
      [] at = "category" -> {"Category"}
      [] at = "child_blocks" -> {"YearsInBusiness", "PhoneNumber", "Address"}
      [] at = "years" -> {"YearsInBusiness"}
      [] at = "phone" -> {"PhoneNumber"}
      [] at = "address" -> {"Address"}
      [] OTHER -> {}

\* the fields assigned at or after that place in the same try block
LostFields(at) ==
    CASE at = "rating" -> {"Rating", "NumberOfReviews", "Category"}
      [] at = "reviews" -> {"NumberOfReviews", "Category"}
      [] at = "years" -> {"YearsInBusiness", "PhoneNumber", "Address"}
      [] at = "phone" -> {"PhoneNumber", "Address"}
      [] OTHER -> FailedFields(at)

ParsedFragment ==
    [f \in ParseFragments |-> parse_gmb_listing(f, ParseKeyword, "none")]
Unfailed == ParsedFragment[listing_element]

====
